---- MODULE Spec2Model ----
(***************************************************************************)
(* The Gumroad proxy handler of ai-optimizer-website.                      *)
(*                                                                         *)
(* The repository holds three versions of /api/gumroad.js, each exporting  *)
(* `handler(request, response)`:                                           *)
(*   "gumroad"  src/api/gumroad.js     product call only, 1 h cache        *)
(*   "part001"  src/unnamed/part_001   product + reviews, strict           *)
(*   "part000"  src/unnamed/part_000   product + reviews, 404 tolerated,   *)
(*                                     rating / permalink defaults         *)
(* `variant` selects the deployed file.  Two invocations of the deployed   *)
(* handler run interleaved; each has its own pending fetches and its own   *)
(* response object.                                                        *)
(*                                                                         *)
(* JavaScript values are tagged records, strings are sequences of          *)
(* one-character strings, error messages are sequences of words.           *)
(***************************************************************************)
EXTENDS Integers, Sequences, FiniteSets, TLC

VARIABLES variant, env, pc, calls, outcome, resp, console

vars == <<variant, env, pc, calls, outcome, resp, console>>

(* ------------------------------ bounds -------------------------------- *)

\* Longest upstream review list.
MaxReviews == 2

\* The invocations observed together (a pair is what a two-run property needs).
Invocations == {"inv1", "inv2"}

Variants == {"gumroad", "part001", "part000"}

(* -------------------------- JavaScript values -------------------------- *)

Undef == [t |-> "undefined"]
NaN == [t |-> "NaN"]
Null == [t |-> "null"]
Num(n) == [t |-> "number", n |-> n]
Str(s) == [t |-> "string", s |-> s]
Arr(a) == [t |-> "array", a |-> a]

\* ToBoolean(v) is false: undefined, null, NaN, 0 and "".
Falsy(v) == v \in {Undef, Null, NaN, Num(0), Str(<<>>)}

\* a || b
OrElse(a, b) == IF Falsy(a) THEN b ELSE a

Digits == {"0", "1", "2", "3", "4", "5", "6", "7", "8", "9"}
Lower == {"a", "b", "c", "d", "e", "f", "g", "h", "i", "j", "k", "l", "m",
          "n", "o", "p", "q", "r", "s", "t", "u", "v", "w", "x", "y", "z"}
Upper == {"A", "B", "C", "D", "E", "F", "G", "H", "I", "J", "K", "L", "M",
          "N", "O", "P", "Q", "R", "S", "T", "U", "V", "W", "X", "Y", "Z"}

DigitVal(c) == CASE c = "0" -> 0 [] c = "1" -> 1 [] c = "2" -> 2 [] c = "3" -> 3
                 [] c = "4" -> 4 [] c = "5" -> 5 [] c = "6" -> 6 [] c = "7" -> 7
                 [] c = "8" -> 8 [] c = "9" -> 9

RECURSIVE LeadingDigits(_)
LeadingDigits(s) ==
  IF s = <<>> \/ Head(s) \notin Digits THEN <<>>
  ELSE <<Head(s)>> \o LeadingDigits(Tail(s))

RECURSIVE DigitsValue(_, _)
DigitsValue(ds, acc) ==
  IF ds = <<>> THEN acc ELSE DigitsValue(Tail(ds), 10 * acc + DigitVal(Head(ds)))

RECURSIVE TrimLeft(_)
TrimLeft(s) == IF s # <<>> /\ Head(s) = " " THEN TrimLeft(Tail(s)) ELSE s

\* parseFloat(v), on numbers and on strings holding an unsigned integer prefix:
\* the argument is converted to a string, leading blanks are skipped, the
\* longest numeric prefix is read, and NaN results when there is none.
ParseFloat(v) ==
  CASE v.t = "number" -> v
    [] v.t = "string" ->
         LET ds == LeadingDigits(TrimLeft(v.s))
         IN IF ds = <<>> THEN NaN ELSE Num(DigitsValue(ds, 0))
    [] OTHER -> NaN

\* A string kept as a sequence of words (messages, raw upstream bodies).
Text(w) == [t |-> "string", w |-> w]

\* JSON.stringify of one object: members whose value is undefined are left
\* out, NaN is written as null.
StringifyObj(b) ==
  [k \in {f \in DOMAIN b : b[f] # Undef} |-> IF b[k] = NaN THEN Null ELSE b[k]]

\* JSON.stringify of a response body, descending into its arrays.
Stringify(b) ==
  LET o == StringifyObj(b)
  IN [k \in DOMAIN o |->
        IF o[k].t = "array"
        THEN Arr([j \in DOMAIN o[k].a |-> StringifyObj(o[k].a[j])])
        ELSE o[k]]

(* --------------------------- upstream replies -------------------------- *)

Pending == [kind |-> "pending"]
NotIssued == [kind |-> "none"]
Rejected == [kind |-> "rejected"]
Response(status, body) == [kind |-> "response", status |-> status, body |-> body]

SyntaxErr == [t |-> "SyntaxError"]
Obj(fields) == [t |-> "object"] @@ fields

\* What a body is to res.text() and to res.json().
Body(text, parsed) == [text |-> Text(text), parsed |-> parsed]

NotFoundBody == Body(<<"Not", "Found">>, SyntaxErr)
ServerErrorBody == Body(<<"{\"success\":false}">>, Obj([success |-> Null]))

FullRating == Obj([average_rating |-> Num(4), count |-> Num(3)])

Product(rating, permalink) ==
  Obj([sales_count |-> Num(12), rating |-> rating,
       formatted_price |-> Str(<<"$", "9">>), permalink |-> permalink])

FullProduct == Product(FullRating, Str(<<"a", "i", "o">>))

\* The product objects seen: complete, without permalink, without rating,
\* with the average as a string, with an empty rating object.
ProductObjs ==
  { FullProduct,
    Product(FullRating, Undef),
    Product(Undef, Str(<<"a", "i", "o">>)),
    Product(Obj([average_rating |-> Str(<<"5">>), count |-> Num(1)]), Undef),
    Product(Obj([average_rating |-> Undef, count |-> Undef]), Str(<<"a", "i", "o">>)) }

ProductBodies ==
  { Body(<<"<html>">>, SyntaxErr), Body(<<"{}">>, Obj([product |-> Undef])) }
    \cup { Body(<<"{product}">>, Obj([product |-> po])) : po \in ProductObjs }

ProductOutcomes ==
  { Rejected, Response(404, NotFoundBody), Response(500, ServerErrorBody),
    Response(201, Body(<<"{product}">>, Obj([product |-> FullProduct]))) }
    \cup { Response(200, b) : b \in ProductBodies }

ReviewPool ==
  { [user_name |-> Str(<<"A", "l", " ", "B", ".">>), rating |-> Num(5),
     review_content |-> Str(<<"o", "k">>)],
    [user_name |-> Str(<<"z", "-", "9">>), rating |-> Num(3),
     review_content |-> Str(<<>>)],
    [user_name |-> Undef, rating |-> Num(1), review_content |-> Undef] }

\* Lists of distinct reviews, at most MaxReviews long.
ReviewLists ==
  UNION { { l \in [1..n -> ReviewPool] : \A j, k \in 1..n : l[j] = l[k] => j = k }
            : n \in 0..MaxReviews }

ReviewBodies ==
  { Body(<<"<html>">>, SyntaxErr), Body(<<"{}">>, Obj([reviews |-> Undef])) }
    \cup { Body(<<"{reviews}">>, Obj([reviews |-> Arr(l)])) : l \in ReviewLists }

ReviewsOutcomes ==
  { Rejected, Response(404, NotFoundBody), Response(500, ServerErrorBody),
    Response(201, Body(<<"{reviews}">>, Obj([reviews |-> Arr(<<>>)]))) }
    \cup { Response(200, b) : b \in ReviewBodies }

Outcomes(c) == IF c = "product" THEN ProductOutcomes ELSE ReviewsOutcomes

\* Response.ok
Ok(res) == res.status >= 200 /\ res.status <= 299

(* ------------------------------ the handler ---------------------------- *)

DefaultProductId == Str(<<"r", "d", "c", "v", "z", "n">>)

\* const PRODUCT_ID
ProductId(v, e) ==
  IF v = "gumroad" THEN DefaultProductId ELSE OrElse(e.productId, DefaultProductId)

\* The URL and the Authorization header of one fetch.
Fetch(v, e, endpoint) ==
  [endpoint |-> endpoint, id |-> ProductId(v, e), bearer |-> e.token]

\* The outcome of a try block: it threw `msg`, or it completed with `val`;
\* `log` holds the console lines written on the way.
Throw(msg, log) == [thrown |-> TRUE, msg |-> msg, log |-> log]
Return(val, log) == [thrown |-> FALSE, val |-> val, log |-> log]

\* error.message of the runtime's own errors.
FetchFailed == <<"fetch", "failed">>
SyntaxMsg == <<"Unexpected", "token", "in", "JSON">>
TypeErrorMsg(prop) ==
  <<"Cannot", "read", "properties", "of", "undefined", "(reading", prop, ")">>

\* await res.json()
ResJson(res) ==
  IF res.body.parsed = SyntaxErr THEN Throw(SyntaxMsg, <<>>)
  ELSE Return(res.body.parsed, <<>>)

\* Step 1: the message thrown when the access token is missing.
MissingTokenMsg(v) ==
  IF v = "gumroad"
  THEN <<"GUMROAD_ACCESS_TOKEN", "environment", "variable", "is", "not", "set.">>
  ELSE <<"Server", "configuration", "error:", "Missing", "API", "token.">>

MissingTokenLog(v) ==
  IF v = "gumroad" THEN <<>>
  ELSE << <<"error", <<"GUMROAD_ACCESS_TOKEN", "environment", "variable",
                       "is", "not", "set.">> >> >>

\* `... responded with status ${res.status}. Details: ${errorBody}`
UpstreamErrorMsg(api, res) ==
  api \o <<"responded", "with", "status", ToString(res.status), ".", "Details:">>
      \o res.body.text.w

ProductErrorMsgGeneric(v, res) == <<"Gumroad", "API", "request", "failed">>

ProductErrorMsg(v, res) ==
  UpstreamErrorMsg(IF v = "gumroad" THEN <<"Gumroad", "API">>
                   ELSE <<"Gumroad", "Product", "API">>, res)

ReviewsErrorMsg(res) == UpstreamErrorMsg(<<"Gumroad", "Reviews", "API">>, res)

Reviews404Log ==
  << <<"log", <<"Gumroad", "reviews", "returned", "404.", "Proceeding",
               "with", "an", "empty", "list.">> >> >>

ReviewsDataLenient(v, res) ==
  IF Ok(res) THEN ResJson(res)
  ELSE Return(Obj([success |-> [t |-> "true"], reviews |-> Arr(<<>>)]), <<>>)

\* The reviews branch of step 4.
ReviewsData(v, res) ==
  IF Ok(res) THEN ResJson(res)
  ELSE IF v = "part000" /\ res.status = 404
       THEN Return(Obj([success |-> [t |-> "true"], reviews |-> Arr(<<>>)]),
                   Reviews404Log)
       ELSE Throw(ReviewsErrorMsg(res), <<>>)

AlphaNumeric == Lower \cup Upper \cup Digits

\* name.replace(/[^a-zA-Z0-9]/g, '')
StripNonAlnum(s) == SelectSeq(s, LAMBDA c : c \in AlphaNumeric)

ReviewEntry(review) ==
  [name |-> review.user_name, rating |-> review.rating,
   content |-> review.review_content,
   avatar_id |-> Str(StripNonAlnum(review.user_name.s))]

\* reviewsData.reviews.map(review => ({...}))
MapReviews(reviewsData) ==
  IF reviewsData.reviews = Undef THEN Throw(TypeErrorMsg("map"), <<>>)
  ELSE LET a == reviewsData.reviews.a
       IN IF \E j \in DOMAIN a : a[j].user_name = Undef
          THEN Throw(TypeErrorMsg("replace"), <<>>)
          ELSE Return(Arr([j \in DOMAIN a |-> ReviewEntry(a[j])]), <<>>)

\* rating?.member
OptChain(o, member) == IF o \in {Undef, Null} THEN Undef ELSE o[member]

DefaultPermalink == Str(<<"r", "d", "c", "v", "z", "n">>)

\* The five product members of responseData.
ProductSummary(v, product) ==
  IF v = "part000"
  THEN Return([sales_count |-> product.sales_count,
               rating_average |->
                 ParseFloat(OrElse(OptChain(product.rating, "average_rating"), Num(0))),
               rating_count |-> OrElse(OptChain(product.rating, "count"), Num(0)),
               formatted_price |-> product.formatted_price,
               permalink |-> OrElse(product.permalink, DefaultPermalink)], <<>>)
  ELSE IF product.rating = Undef
       THEN Throw(TypeErrorMsg("average_rating"), <<>>)
       ELSE Return([sales_count |-> product.sales_count,
                    rating_average |-> ParseFloat(product.rating.average_rating),
                    rating_count |-> product.rating.count,
                    formatted_price |-> product.formatted_price,
                    permalink |-> product.permalink], <<>>)

\* const responseData = {...}
ResponseData(v, productData, reviewsData) ==
  IF productData.product = Undef THEN Throw(TypeErrorMsg("sales_count"), <<>>)
  ELSE LET ps == ProductSummary(v, productData.product)
       IN IF ps.thrown \/ v = "gumroad" THEN ps
          ELSE LET rs == MapReviews(reviewsData)
               IN IF rs.thrown THEN rs
                  ELSE Return(ps.val @@ [reviews |-> rs.val], <<>>)

\* Appends the console lines of an earlier step to a later step's outcome.
After(log, result) == [result EXCEPT !.log = log \o @]

\* Steps 4 and 5: everything between the awaited fetches and the response.
TryBody(v, productRes, reviewsRes) ==
  IF ~Ok(productRes) THEN Throw(ProductErrorMsg(v, productRes), <<>>)
  ELSE CASE v = "gumroad" ->
              LET pd == ResJson(productRes)
              IN IF pd.thrown THEN pd ELSE ResponseData(v, pd.val, Undef)
         [] v = "part001" ->
              IF ~Ok(reviewsRes) THEN Throw(ReviewsErrorMsg(reviewsRes), <<>>)
              ELSE LET pd == ResJson(productRes)
                       rd == ResJson(reviewsRes)
                   IN IF pd.thrown THEN pd
                      ELSE IF rd.thrown THEN rd
                      ELSE ResponseData(v, pd.val, rd.val)
         [] v = "part000" ->
              LET rd == ReviewsData(v, reviewsRes)
              IN IF rd.thrown THEN rd
                 ELSE LET pd == ResJson(productRes)
                      IN After(rd.log,
                               IF pd.thrown THEN pd
                               ELSE ResponseData(v, pd.val, rd.val))

EdgeCacheSeconds == 900
EdgeCacheSecondsV1 == 3600

\* The value given to response.setHeader('Cache-Control', ...).
CacheControl(v) ==
  [sMaxAge |-> IF v = "gumroad" THEN EdgeCacheSecondsV1 ELSE EdgeCacheSeconds,
   staleWhileRevalidate |-> TRUE]

GenericError(v) ==
  IF v = "gumroad"
  THEN <<"An", "internal", "server", "error", "occurred.">>
  ELSE <<"An", "internal", "server", "error", "occurred", "while", "fetching",
         "Gumroad", "data.">>

\* Step 6: the calls made on `response` on success.
Success(v, responseData) ==
  << [op |-> "setHeader", name |-> "Cache-Control", value |-> CacheControl(v)],
     [op |-> "status", code |-> 200],
     [op |-> "json", body |-> Stringify(responseData)] >>

CatchNothing(v, msg) == <<>>

\* The catch block: the calls made on `response`.
Catch(v, msg) ==
  << [op |-> "status", code |-> 500],
     [op |-> "json",
      body |-> Stringify([error |-> Text(GenericError(v)), details |-> Text(msg)])] >>

CatchLog(msg) == << <<"error", <<"Error", "in", "Vercel", "function:">> \o msg>> >>

\* The end of the handler, from the outcome of its try block.
Finish(v, result) ==
  IF result.thrown
  THEN [ops |-> Catch(v, result.msg), log |-> result.log \o CatchLog(result.msg)]
  ELSE [ops |-> Success(v, result.val), log |-> result.log]

(* ------------------------------- actions ------------------------------- *)

Endpoints == {"product", "reviews"}

Tokens == {Undef, Str(<<>>), Str(<<"t", "k">>)}
ProductIdSettings == {Undef, Str(<<"x", "y">>)}

Init ==
  /\ variant \in Variants
  /\ env \in [token : Tokens, productId : ProductIdSettings]
  /\ pc = [i \in Invocations |-> "idle"]
  /\ calls = [i \in Invocations |-> <<>>]
  /\ outcome = [i \in Invocations |-> [c \in Endpoints |-> NotIssued]]
  /\ resp = [i \in Invocations |-> <<>>]
  /\ console = [i \in Invocations |-> <<>>]

AwaitedWhileBusy(i, c) ==
  IF \E j \in Invocations \ {i} : pc[j] \in {"awaitAll", "awaitProduct"}
  THEN Rejected ELSE outcome[i][c]

\* What the handler of invocation i holds for call c once its await is over.
Awaited(i, c) == outcome[i][c]

\* The handler runs to its first await: the token check and the fetches.
Invoke(i) ==
  /\ pc[i] = "idle"
  /\ IF Falsy(env.token)
     THEN LET end == Finish(variant,
                            Throw(MissingTokenMsg(variant), MissingTokenLog(variant)))
          IN /\ resp' = [resp EXCEPT ![i] = end.ops]
             /\ console' = [console EXCEPT ![i] = end.log]
             /\ pc' = [pc EXCEPT ![i] = "done"]
             /\ UNCHANGED <<calls, outcome>>
     ELSE IF variant = "gumroad"
     THEN /\ calls' = [calls EXCEPT ![i] = <<Fetch(variant, env, "product")>>]
          /\ outcome' = [outcome EXCEPT ![i]["product"] = Pending]
          /\ pc' = [pc EXCEPT ![i] = "awaitProduct"]
          /\ UNCHANGED <<resp, console>>
     ELSE /\ calls' = [calls EXCEPT ![i] = <<Fetch(variant, env, "product"),
                                            Fetch(variant, env, "reviews")>>]
          /\ outcome' = [outcome EXCEPT ![i] = [c \in Endpoints |-> Pending]]
          /\ pc' = [pc EXCEPT ![i] = "awaitAll"]
          /\ UNCHANGED <<resp, console>>
  /\ UNCHANGED <<variant, env>>

\* The transport settles a pending fetch: it rejects, or resolves to a reply.
Settle(i, c) ==
  /\ outcome[i][c] = Pending
  /\ \E o \in Outcomes(c) : outcome' = [outcome EXCEPT ![i][c] = o]
  /\ UNCHANGED <<variant, env, pc, calls, resp, console>>

\* Promise.all is settled: an input rejected, or every input resolved.
AllSettled(i) ==
  \/ \E c \in Endpoints : outcome[i][c] = Rejected
  \/ \A c \in Endpoints : outcome[i][c].kind = "response"

\* The handler resumes after `await Promise.all([...])` and runs to its end.
ResumeAll(i) ==
  /\ pc[i] = "awaitAll"
  /\ AllSettled(i)
  /\ LET end == Finish(variant,
                       IF \E c \in Endpoints : Awaited(i, c) = Rejected
                       THEN Throw(FetchFailed, <<>>)
                       ELSE TryBody(variant, Awaited(i, "product"),
                                    Awaited(i, "reviews")))
     IN /\ resp' = [resp EXCEPT ![i] = end.ops]
        /\ console' = [console EXCEPT ![i] = end.log]
  /\ pc' = [pc EXCEPT ![i] = "done"]
  /\ UNCHANGED <<variant, env, calls, outcome>>

\* The handler resumes after `await fetch(productUrl, ...)` and runs to its end.
ResumeProduct(i) ==
  /\ pc[i] = "awaitProduct"
  /\ outcome[i]["product"] # Pending
  /\ LET end == Finish(variant,
                       IF Awaited(i, "product") = Rejected
                       THEN Throw(FetchFailed, <<>>)
                       ELSE TryBody(variant, Awaited(i, "product"), NotIssued))
     IN /\ resp' = [resp EXCEPT ![i] = end.ops]
        /\ console' = [console EXCEPT ![i] = end.log]
  /\ pc' = [pc EXCEPT ![i] = "done"]
  /\ UNCHANGED <<variant, env, calls, outcome>>

Next ==
  \E i \in Invocations :
    \/ Invoke(i)
    \/ \E c \in Endpoints : Settle(i, c)
    \/ ResumeAll(i)
    \/ ResumeProduct(i)

Spec == Init /\ [][Next]_vars

(* ------------------------- reading a behaviour ------------------------- *)

StatusCalls(i) == SelectSeq(resp[i], LAMBDA o : o.op = "status")
JsonCalls(i) == SelectSeq(resp[i], LAMBDA o : o.op = "json")

\* A response has been sent for invocation i.
Sent(i) == JsonCalls(i) # <<>>
SentStatus(i) == StatusCalls(i)[1].code
SentBody(i) == JsonCalls(i)[1].body

Configured == ~Falsy(env.token)

Replied(i, c) == outcome[i][c].kind = "response"
Settled(i, c) == outcome[i][c].kind \in {"response", "rejected"}

Mentions(text, word) == \E k \in DOMAIN text.w : text.w[k] = word

\* `sub` occurs in `s` as a run of consecutive words.
Infix(sub, s) ==
  \E k \in 0..(Len(s) - Len(sub)) : \A j \in 1..Len(sub) : s[k + j] = sub[j]

\* A product reply the merge step can use: 2xx, parsable, with a product object.
ProductUsable(i) ==
  /\ Replied(i, "product") /\ Ok(outcome[i]["product"])
  /\ outcome[i]["product"].body.parsed # SyntaxErr
  /\ outcome[i]["product"].body.parsed.product # Undef

ProductPayload(i) == outcome[i]["product"].body.parsed.product

\* A reviews reply the merge step can use: 2xx, parsable, a list of named reviews.
ReviewsUsable(i) ==
  /\ Replied(i, "reviews") /\ Ok(outcome[i]["reviews"])
  /\ outcome[i]["reviews"].body.parsed # SyntaxErr
  /\ outcome[i]["reviews"].body.parsed.reviews # Undef
  /\ \A j \in DOMAIN outcome[i]["reviews"].body.parsed.reviews.a :
       outcome[i]["reviews"].body.parsed.reviews.a[j].user_name # Undef

ReviewsPayload(i) == outcome[i]["reviews"].body.parsed.reviews.a

Reviews404(i) == Replied(i, "reviews") /\ outcome[i]["reviews"].status = 404

(* -------------------------------- claims ------------------------------- *)

\* C1: with a credential configured, a 2xx product reply (usable payload) and
\* a 404 reviews reply, the handler answers 200 with reviews = [].
C1_Reviews404GivesEmptyList ==
  \A i \in Invocations :
    (pc[i] = "done" /\ Configured /\ ProductUsable(i) /\ Reviews404(i))
      => /\ Sent(i) /\ SentStatus(i) = 200
         /\ "reviews" \in DOMAIN SentBody(i)
         /\ SentBody(i).reviews = Arr(<<>>)

\* C2: with a credential configured, a non-2xx product reply ends in HTTP 500
\* whatever status the reviews call replied with, and the details of the
\* error body hold the upstream product status and body.
C2_ProductFailureIs500 ==
  \A i \in Invocations :
    ( /\ pc[i] = "done" /\ Configured
      /\ Replied(i, "product") /\ ~Ok(outcome[i]["product"])
      /\ outcome[i]["reviews"].kind \in {"response", "none"} )
      => /\ Sent(i) /\ SentStatus(i) = 500
         /\ Mentions(SentBody(i).details, ToString(outcome[i]["product"].status))
         /\ Infix(outcome[i]["product"].body.text.w, SentBody(i).details.w)

C2_Witness ==
  \E i \in Invocations :
    /\ pc[i] = "done" /\ Configured
    /\ Replied(i, "product") /\ outcome[i]["product"].status = 404
    /\ Replied(i, "reviews") /\ Ok(outcome[i]["reviews"])
    /\ SentStatus(i) = 500

\* C3: a reviews reply whose status is neither 2xx nor 404 never goes with a
\* 200 response: once the handler has answered, the answer is HTTP 500.
C3_ReviewsFailureIs500 ==
  \A i \in Invocations :
    ( /\ Replied(i, "reviews") /\ ~Ok(outcome[i]["reviews"])
      /\ outcome[i]["reviews"].status # 404 )
      => /\ pc[i] = "done" => Sent(i)
         /\ Sent(i) => SentStatus(i) = 500

C3_Witness ==
  \E i \in Invocations :
    /\ pc[i] = "done" /\ ProductUsable(i)
    /\ Replied(i, "reviews") /\ outcome[i]["reviews"].status = 500
    /\ SentStatus(i) = 500

\* C4: without a credential (absent or empty) the handler issues no outbound
\* call and answers HTTP 500 with an error body mentioning configuration.
C4_MissingTokenIsConfigurationError ==
  \A i \in Invocations :
    (pc[i] = "done" /\ ~Configured)
      => /\ calls[i] = <<>>
         /\ Sent(i) /\ SentStatus(i) = 500
         /\ \/ Mentions(SentBody(i).error, "configuration")
            \/ Mentions(SentBody(i).details, "configuration")

\* C5: a usable product payload without a rating object, with a usable or
\* 404 reviews reply, gives HTTP 200 with rating_average 0 and rating_count 0.
C5_MissingRatingDefaultsToZero ==
  \A i \in Invocations :
    ( /\ pc[i] = "done" /\ Configured
      /\ ProductUsable(i) /\ ProductPayload(i).rating = Undef
      /\ outcome[i]["reviews"].kind = "none" \/ ReviewsUsable(i) \/ Reviews404(i) )
      => /\ Sent(i) /\ SentStatus(i) = 200
         /\ SentBody(i).rating_average = Num(0)
         /\ SentBody(i).rating_count = Num(0)

\* The avatar ids expected for the reviewer names of ReviewPool.
ExpectedAvatar(name) ==
  CASE name = Str(<<"A", "l", " ", "B", ".">>) -> Str(<<"A", "l", "B">>)
    [] name = Str(<<"z", "-", "9">>) -> Str(<<"z", "9">>)

\* C6: when both calls reply 2xx, the 200 body holds the five product fields
\* of the payload (permalink replaced by the default identifier when absent)
\* and one review entry per upstream review, in order, each with avatar_id
\* the reviewer name without its non-alphanumeric characters.
C6_MergedBody ==
  \A i \in Invocations :
    ( /\ pc[i] = "done" /\ Sent(i) /\ SentStatus(i) = 200
      /\ ProductUsable(i) /\ ReviewsUsable(i)
      /\ ProductPayload(i).rating = FullRating )
      => LET b == SentBody(i)
             p == ProductPayload(i)
             r == ReviewsPayload(i)
         IN /\ DOMAIN b = {"sales_count", "rating_average", "rating_count",
                           "formatted_price", "permalink", "reviews"}
            /\ b.sales_count = p.sales_count
            /\ b.rating_average = p.rating.average_rating
            /\ b.rating_count = p.rating.count
            /\ b.formatted_price = p.formatted_price
            /\ b.permalink = IF p.permalink = Undef THEN DefaultPermalink
                             ELSE p.permalink
            /\ Len(b.reviews.a) = Len(r)
            /\ \A j \in DOMAIN r :
                 /\ b.reviews.a[j].name = r[j].user_name
                 /\ b.reviews.a[j].rating = r[j].rating
                 /\ b.reviews.a[j].avatar_id = ExpectedAvatar(r[j].user_name)

\* C7: every 200 response carries Cache-Control with a shared-cache lifetime
\* of 900 seconds and stale-while-revalidate, set before the body is sent.
C7_CacheHeader ==
  \A i \in Invocations :
    (Sent(i) /\ SentStatus(i) = 200)
      => \E k, m \in DOMAIN resp[i] :
           /\ k < m
           /\ resp[i][m].op = "json"
           /\ resp[i][k] = [op |-> "setHeader", name |-> "Cache-Control",
                            value |-> [sMaxAge |-> 900,
                                       staleWhileRevalidate |-> TRUE]]

\* C8: with a credential configured both calls are issued before either is
\* awaited, and the handler has not gone past the await (no response of
\* either status) until both calls have completed.
C8_BothAwaited ==
  \A i \in Invocations :
    (Configured /\ pc[i] # "idle")
      => /\ {calls[i][k].endpoint : k \in DOMAIN calls[i]} = Endpoints
         /\ (pc[i] = "done" \/ Sent(i)) => \A c \in Endpoints : Settled(i, c)

\* The try block of invocation i cannot complete: a step of it failed.
Failure(i) ==
  \/ ~Configured
  \/ \E c \in Endpoints : outcome[i][c] = Rejected
  \/ Replied(i, "product") /\ ~ProductUsable(i)
  \/ /\ Replied(i, "reviews") /\ ~ReviewsUsable(i)
     /\ outcome[i]["reviews"].status # 404

\* How far invocation i is from its end: the steps it can still take.
Rank(i) ==
  (CASE pc[i] = "idle" -> 4 [] pc[i] = "done" -> 0 [] OTHER -> 1)
    + Cardinality({c \in Endpoints : outcome[i][c] = Pending})

RECURSIVE TotalRank(_)
TotalRank(S) ==
  IF S = {} THEN 0 ELSE LET i == CHOOSE i \in S : TRUE IN Rank(i) + TotalRank(S \ {i})

C9_State ==
  \A i \in Invocations :
    /\ Len(JsonCalls(i)) <= 1 /\ Len(StatusCalls(i)) = Len(JsonCalls(i))
    /\ pc[i] = "done" <=> Sent(i)
    /\ Sent(i) => SentStatus(i) \in {200, 500}
    /\ (Sent(i) /\ Failure(i)) => SentStatus(i) = 500
    /\ (Sent(i) /\ SentStatus(i) = 500) => DOMAIN SentBody(i) = {"error", "details"}
    /\ \A k, m \in DOMAIN calls[i] : calls[i][k].endpoint = calls[i][m].endpoint => k = m
    /\ pc[i] = "awaitAll" => (\E c \in Endpoints : outcome[i][c] = Pending) \/ AllSettled(i)
    /\ pc[i] = "awaitProduct" => outcome[i]["product"].kind # "none"

\* C9: every invocation ends in exactly one response, of status 200 or 500:
\* a failure at any step gives one HTTP 500 {error, details}, nothing is sent
\* twice, no endpoint is called twice, a waiting handler always has a fetch
\* still to settle or an await that is over (the guards of Settle, ResumeAll
\* and ResumeProduct), and every step brings the end nearer.
C9_SingleResponse ==
  [](C9_State) /\ [][TotalRank(Invocations)' < TotalRank(Invocations)]_vars

C9_Witness ==
  \E i \in Invocations :
    /\ pc[i] = "done" /\ ProductUsable(i)
    /\ Replied(i, "reviews") /\ Ok(outcome[i]["reviews"])
    /\ outcome[i]["reviews"].body.parsed # SyntaxErr
    /\ outcome[i]["reviews"].body.parsed.reviews # Undef
    /\ ~ReviewsUsable(i)
    /\ Len(JsonCalls(i)) = 1 /\ SentStatus(i) = 500

====
